---- MODULE Spec2Model ----
(***************************************************************************)
(* The BVH of the ray_tracer example (crates/CoGrRs/examples/ray_tracer/   *)
(* bvh.rs): build_bvh / subdivide / partition / partition_shuffle /        *)
(* calculate_bounds, and the traversal fast_intersect with its primitives  *)
(* intersect_aabb and intersects_triangle, next to the brute-force         *)
(* intersect.                                                              *)
(*                                                                         *)
(* Numbers.  The source computes in f32.  Every scene and ray below has    *)
(* small integer coordinates, and the model computes with exact rationals: *)
(*   - a centroid (v0+v1+v2)/3 is held as the sum v0+v1+v2 (three times    *)
(*     the centroid), a split position lerp(min,max,b/8) as 24 times its   *)
(*     value, and the test centroid < pos as 8*sum < 8*min3+(max3-min3)*b; *)
(*   - a distance is a fraction [n, d] with d >= 0; f32::MAX, which every  *)
(*     finite distance of these scenes is below, is the fraction 1/0;      *)
(*   - ray directions have components +1/-1, so the reciprocal direction   *)
(*     d_r = 1/d is exact.                                                 *)
(* Vectors are triples <<x, y, z>>; the source's axis a in 0..2 is         *)
(* component a+1.  Arrays are functions over 0..len-1, as in the source.   *)
(***************************************************************************)
EXTENDS Integers, Sequences, FiniteSets, TLC

\* ---------------------------------------------------------------- bounds
MaxTris == 5

\* The most resources (buffers and textures) a program creates.
MaxResources == 3

\* The most handles of one resource held outside the pool at a time.
MaxHeld == 2

\* The largest extent and the largest work-group size given to div_ceil.
MaxVal == 20

MaxDiv == 6

\* ------------------------------------------------------- program constants
LEAF_THRESHOLD == 3
BINS == 8
STACK_SIZE == 32
FAR == 100000000
COST_MAX == 2147483647
EPS_INV == 10000000
PRIM_NONE == 2147483647

\* ------------------------------------------------------------ vector math
Axes == 1..3

Add(a, b) == [k \in Axes |-> a[k] + b[k]]

Sub(a, b) == [k \in Axes |-> a[k] - b[k]]

MulP(a, b) == [k \in Axes |-> a[k] * b[k]]

dot(a, b) == a[1] * b[1] + a[2] * b[2] + a[3] * b[3]

cross(a, b) ==
    << a[2] * b[3] - a[3] * b[2],
       a[3] * b[1] - a[1] * b[3],
       a[1] * b[2] - a[2] * b[1] >>

SetMin(S) == CHOOSE x \in S : \A y \in S : x <= y

SetMax(S) == CHOOSE x \in S : \A y \in S : y <= x

Min2(a, b) == IF a <= b THEN a ELSE b

Max2(a, b) == IF a >= b THEN a ELSE b

PointMin(a, b) == [k \in Axes |-> Min2(a[k], b[k])]

PointMax(a, b) == [k \in Axes |-> Max2(a[k], b[k])]

\* -------------------------------------------------------------- the scenes
\* Triangles the scenes are made of: two triangles that tile one square
\* (same bounding box, different centroids), the first one moved along the
\* diagonal, and the first one moved far away.
TriA == << <<0, 0, 0>>, <<3, 0, 0>>, <<0, 3, 0>> >>

TriB == << <<3, 3, 0>>, <<3, 0, 0>>, <<0, 3, 0>> >>

TriC == << <<6, 6, 6>>, <<9, 6, 6>>, <<6, 9, 6>> >>

TriE == << <<32, 34, 30>>, <<35, 34, 30>>, <<32, 37, 30>> >>

Catalogue == {TriA, TriB, TriC, TriE}

\* A triangle list of n triangles, ids 0..n-1; n = 0 is the empty list.
Scenes == UNION {[0..(n - 1) -> Catalogue] : n \in 0..MaxTris}

Size(f) == Cardinality(DOMAIN f)

ZeroNode == [min |-> <<0, 0, 0>>, max |-> <<0, 0, 0>>, left_first |-> 0, count |-> 0]

\* ------------------------------------------------------------------ state
VARIABLES
    triangles,   \* BVH.triangles (with BVH.vertices resolved): id -> 3 points
    indices,     \* BVH.indices
    bvh_nodes,   \* BVH.bvh_nodes
    centroids,   \* BVH.centroids, times 3
    pool_index,  \* new_node_index of build_bvh, pool_index of subdivide
    frames,      \* the active calls of subdivide, innermost last
    part,        \* the locals of the running partition / partition_shuffle
    pc,          \* where the build is
    ray,         \* the Ray of the running fast_intersect
    trav,        \* the locals of fast_intersect
    tpc,         \* where the traversal is
    prev,        \* the caller's copy of the result of an earlier build
    par,         \* par_iter: the locals of the workers that are not running
    resource_pool, \* CoGr.resource_pool
    user,        \* the handles held outside the pool, per resource
    gpc,         \* whether an Encoder of the gpu context is alive
    dispatch     \* the arguments and the result of a call of div_ceil

vars == <<triangles, indices, bvh_nodes, centroids, pool_index, frames, part,
          pc, ray, trav, tpc, prev, par, resource_pool, user, gpc, dispatch>>

buildVars == <<indices, bvh_nodes, centroids, pool_index, frames, part, pc>>

travVars == <<ray, trav, tpc>>

callerVars == <<prev, par>>

gpuVars == <<resource_pool, user, gpc, dispatch>>

N == Size(triangles)

\* The locals of partition; trials is the record of the candidates tried so
\* far (axis, b, pos, the pivot partition_shuffle returned, the cost, the
\* ids left of the pivot), which the code does not keep.
NoPart == [axis |-> 0, b |-> 0, pos |-> 0, i |-> 0, end |-> 0, start |-> 0,
           count |-> 0, aabb |-> [min |-> <<0, 0, 0>>, max |-> <<0, 0, 0>>],
           optimal_axis |-> 0, optimal_pos |-> 0, optimal_pivot |-> 0,
           optimal_cost |-> COST_MAX, final |-> FALSE, trials |-> <<>>]

NoRay == [o |-> <<0, 0, 0>>, d |-> <<1, 1, 1>>, d_r |-> <<1, 1, 1>>,
          t |-> [n |-> 1, d |-> 0], prim |-> PRIM_NONE]

NoTrav == [stack |-> <<>>, node_index |-> 0, i |-> 0, t |-> [n |-> 1, d |-> 0]]

\* No earlier build is held by the caller.
NoPrev == [built |-> FALSE, bvh_nodes |-> <<>>, indices |-> <<>>]

\* ResourcePool::new / default: no buffers, no textures, no handles.
EmptyPool == [buffers |-> <<>>, textures |-> <<>>,
              buffer_handles |-> <<>>, texture_handles |-> <<>>]

\* No resource has been created: nothing is held outside the pool.
NoUser == [b |-> <<>>, t |-> <<>>]

\* BVH::construct on a triangle list of S: indices 0..N, a zeroed pool of
\* 2N nodes, no centroids; nothing has run yet.
Constructed(S) ==
    /\ triangles \in S
    /\ indices = [k \in 0..(Size(triangles) - 1) |-> k]
    /\ bvh_nodes = [k \in 0..(2 * Size(triangles) - 1) |-> ZeroNode]
    /\ centroids = <<>>
    /\ pool_index = 0
    /\ frames = <<>>
    /\ part = NoPart
    /\ pc = "constructed"
    /\ ray = NoRay
    /\ trav = NoTrav
    /\ tpc = "idle"
    /\ prev = NoPrev
    /\ par = <<>>

\* No call of div_ceil has been made.
NoDispatch == [val |-> 0, div |-> 1, out |-> 0, done |-> FALSE]

\* CoGr::new: an empty resource pool, no encoder.
NewGpu ==
    /\ resource_pool = EmptyPool
    /\ user = NoUser
    /\ gpc = "idle"
    /\ dispatch = NoDispatch

\* on_init of the ray tracer: the gpu context, and the constructed BVH.
Init == Constructed(Scenes) /\ NewGpu

\* ------------------------------------------------------------- the builder
\* calculate_bounds(first, amount, centroids) over an index array idx: the
\* fold of Point::max / Point::min from -FAR / +FAR over the amount entries.
\* The centroid variant works on the tripled centroids, so its start values
\* are tripled too.
BoundPoints(idx, cen, first, amount, useCentroids) ==
    IF useCentroids
    THEN {cen[idx[k]] : k \in first..(first + amount - 1)}
    ELSE {triangles[idx[k]][j] : k \in first..(first + amount - 1), j \in 1..3}

calculate_bounds(idx, cen, first, amount, useCentroids) ==
    LET P == BoundPoints(idx, cen, first, amount, useCentroids)
        far == IF useCentroids THEN 3 * FAR ELSE FAR
    IN [max |-> [a \in Axes |-> SetMax({p[a] : p \in P} \cup {-far})],
        min |-> [a \in Axes |-> SetMin({p[a] : p \in P} \cup {far})]]

set_bound(nodes, bvh_index, aabb) ==
    [nodes EXCEPT ![bvh_index].max = aabb.max, ![bvh_index].min = aabb.min]

get_area(bb) ==
    ((bb.max[1] - bb.min[1]) * (bb.max[2] - bb.min[2])
     + (bb.max[1] - bb.min[1]) * (bb.max[3] - bb.min[3])
     + (bb.max[2] - bb.min[2]) * (bb.max[3] - bb.min[3])) * 2

\* half_area * count of partition.  The box of zero triangles has the finite
\* area 2.4e17, so its product with the count 0 is 0; the model does not
\* form that area, which is beyond the integers of the model checker.
CostTerm(bb, cnt) == IF cnt = 0 THEN 0 ELSE get_area(bb) * cnt

\* lerp(a, b, k / BINS), times BINS.
lerp(a, b, k) == BINS * a + (b - a) * k

\* centroids[indices[i]].pos[axis] < pos
LeftOf(idx, cen, i, axis, pos) == BINS * cen[idx[i]][axis + 1] < pos

\* A swap that loses the element at i.
SwapOverwrite(idx, i, j) == [idx EXCEPT ![i] = idx[j]]

\* self.indices.swap(i, end)
Swap(idx, i, j) == [idx EXCEPT ![i] = idx[j], ![j] = idx[i]]

\* A stopping rule with < for <=.
IsLeafSizedStrict(cnt) == cnt < LEAF_THRESHOLD

\* A stopping rule that is off by one.
IsLeafSizedOffByOne(cnt) == cnt <= LEAF_THRESHOLD + 1

\* The stopping rule of subdivide: count <= 3.
IsLeafSized(cnt) == cnt <= LEAF_THRESHOLD

\* A right count that is off by one.
RightCountOffByOne(cnt, left_count) == cnt - left_count - 1

\* right_count of subdivide.
RightCount(cnt, left_count) == cnt - left_count

\* The candidate position of (axis, b) in partition.
CandidatePos(aabb, axis, b) == lerp(aabb.min[axis + 1], aabb.max[axis + 1], b)

Top == frames[Len(frames)]

SetTop(f) == [frames EXCEPT ![Len(frames)] = f]

\* build_bvh up to the call subdivide(0, 0, &mut new_node_index, 0).
BuildStart ==
    /\ pc = "constructed"
    /\ 0 \in DOMAIN bvh_nodes
    /\ centroids' = [k \in 0..(N - 1) |->
                        Add(Add(triangles[k][1], triangles[k][2]), triangles[k][3])]
    /\ bvh_nodes' = set_bound(
                       [bvh_nodes EXCEPT ![0].left_first = 0, ![0].count = N],
                       0, calculate_bounds(indices, <<>>, 0, N, FALSE))
    /\ pool_index' = 2
    /\ frames' = << [node |-> 0, start |-> 0, index |-> 0, pivot |-> 0,
                     at |-> "enter"] >>
    /\ pc' = "call"
    /\ UNCHANGED <<triangles, indices, part>>
    /\ UNCHANGED travVars
    /\ UNCHANGED <<callerVars, gpuVars>>

\* build_bvh on an empty pool (no triangles): the centroids are collected,
\* then bvh_nodes[0] panics (index out of bounds).
BuildPanic ==
    /\ pc = "constructed"
    /\ 0 \notin DOMAIN bvh_nodes
    /\ centroids' = [k \in 0..(N - 1) |->
                        Add(Add(triangles[k][1], triangles[k][2]), triangles[k][3])]
    /\ pc' = "panic"
    /\ UNCHANGED <<triangles, indices, bvh_nodes, pool_index, frames, part>>
    /\ UNCHANGED travVars
    /\ UNCHANGED <<callerVars, gpuVars>>

\* subdivide on a node of at most LEAF_THRESHOLD triangles: it becomes a leaf.
SubdivideLeaf ==
    /\ pc = "call"
    /\ IsLeafSized(bvh_nodes[Top.node].count)
    /\ bvh_nodes' = [bvh_nodes EXCEPT ![Top.node].left_first = Top.start]
    /\ frames' = SubSeq(frames, 1, Len(frames) - 1)
    /\ pc' = "ret"
    /\ UNCHANGED <<triangles, indices, centroids, pool_index, part>>
    /\ UNCHANGED travVars
    /\ UNCHANGED <<callerVars, gpuVars>>

\* The first trial of partition_shuffle for (axis, b), or the final one.
StartShuffle(p, axis, b, pos, final) ==
    [p EXCEPT !.axis = axis, !.b = b, !.pos = pos, !.final = final,
              !.i = p.start, !.end = p.start + p.count - 1]

\* subdivide on a larger node: two slots are reserved, partition begins
\* (centroid bounds, then the trial of axis 0, b = 1).
SubdivideSplit ==
    /\ pc = "call"
    /\ ~IsLeafSized(bvh_nodes[Top.node].count)
    /\ LET cnt == bvh_nodes[Top.node].count
           aabb == calculate_bounds(indices, centroids, Top.start, cnt, TRUE)
           p0 == [NoPart EXCEPT !.start = Top.start, !.count = cnt, !.aabb = aabb]
       IN /\ frames' = SetTop([Top EXCEPT !.index = pool_index, !.at = "partition"])
          /\ pool_index' = pool_index + 2
          /\ bvh_nodes' = [bvh_nodes EXCEPT ![Top.node].left_first = pool_index]
          /\ part' = StartShuffle(p0, 0, 1, CandidatePos(aabb, 0, 1), FALSE)
    /\ pc' = "shuffle"
    /\ UNCHANGED <<triangles, indices, centroids>>
    /\ UNCHANGED travVars
    /\ UNCHANGED <<callerVars, gpuVars>>

\* One iteration of the loop of partition_shuffle.
ShuffleAdvance ==
    /\ pc = "shuffle"
    /\ part.i < part.end
    /\ LeftOf(indices, centroids, part.i, part.axis, part.pos)
    /\ part' = [part EXCEPT !.i = part.i + 1]
    /\ UNCHANGED <<triangles, indices, bvh_nodes, centroids, pool_index, frames, pc>>
    /\ UNCHANGED travVars
    /\ UNCHANGED <<callerVars, gpuVars>>

ShuffleSwap ==
    /\ pc = "shuffle"
    /\ part.i < part.end
    /\ ~LeftOf(indices, centroids, part.i, part.axis, part.pos)
    /\ indices' = Swap(indices, part.i, part.end)
    /\ part' = [part EXCEPT !.end = part.end - 1]
    /\ UNCHANGED <<triangles, bvh_nodes, centroids, pool_index, frames, pc>>
    /\ UNCHANGED travVars
    /\ UNCHANGED <<callerVars, gpuVars>>

\* The SAH cost of the split at pivot, as partition computes it.
SplitCost(idx, start, count, pivot) ==
    LET bb1_count == pivot - start
        bb2_count == count - bb1_count
        bb1 == calculate_bounds(idx, <<>>, start, bb1_count, FALSE)
        bb2 == calculate_bounds(idx, <<>>, pivot, bb2_count, FALSE)
    IN CostTerm(bb1, bb1_count) + CostTerm(bb2, bb2_count)

\* A comparison that lets a later candidate of equal cost win.
ImprovesOrEqual(cost, optimal_cost) == cost <= optimal_cost

\* if cost < optimal_cost
Improves(cost, optimal_cost) == cost < optimal_cost

\* A trial's partition_shuffle has returned: its cost is compared to the best
\* so far, and the next trial begins; after the last one the final
\* partition_shuffle with the best (axis, pos) begins.
TrialEnd ==
    /\ pc = "shuffle"
    /\ ~part.final
    /\ part.i >= part.end
    /\ LET pivot == part.i
           cost == SplitCost(indices, part.start, part.count, pivot)
           tried == Append(part.trials,
                           [axis |-> part.axis, b |-> part.b, pos |-> part.pos,
                            pivot |-> pivot, cost |-> cost,
                            left |-> {indices[k] : k \in part.start..(pivot - 1)}])
           p1 == IF Improves(cost, part.optimal_cost)
                 THEN [part EXCEPT !.optimal_axis = part.axis,
                                   !.optimal_pos = part.pos,
                                   !.optimal_cost = cost,
                                   !.optimal_pivot = pivot,
                                   !.trials = tried]
                 ELSE [part EXCEPT !.trials = tried]
           last == part.axis = 2 /\ part.b = BINS - 1
           nb == IF part.b = BINS - 1 THEN 1 ELSE part.b + 1
           na == IF part.b = BINS - 1 THEN part.axis + 1 ELSE part.axis
       IN part' = IF last
                  THEN StartShuffle(p1, p1.optimal_axis, p1.b, p1.optimal_pos, TRUE)
                  ELSE StartShuffle(p1, na, nb, CandidatePos(part.aabb, na, nb), FALSE)
    /\ UNCHANGED <<triangles, indices, bvh_nodes, centroids, pool_index, frames, pc>>
    /\ UNCHANGED travVars
    /\ UNCHANGED <<callerVars, gpuVars>>

\* partition has returned optimal_pivot: subdivide writes the two children
\* and calls itself on the first one.
SplitChildren ==
    /\ pc = "shuffle"
    /\ part.final
    /\ part.i >= part.end
    /\ Top.index < Size(bvh_nodes)
    /\ LET index == Top.index
           start == Top.start
           pivot == part.optimal_pivot
           left_count == pivot - start
           right_count == RightCount(bvh_nodes[Top.node].count, left_count)
           n1 == [bvh_nodes EXCEPT ![index].count = left_count]
           n2 == set_bound(n1, index,
                           calculate_bounds(indices, <<>>, start, left_count, FALSE))
           n3 == [n2 EXCEPT ![index + 1].count = right_count]
           n4 == set_bound(n3, index + 1,
                           calculate_bounds(indices, <<>>, pivot, right_count, FALSE))
       IN /\ bvh_nodes' = n4
          /\ frames' = Append(SetTop([Top EXCEPT !.pivot = pivot, !.at = "left"]),
                              [node |-> index, start |-> start, index |-> 0,
                               pivot |-> 0, at |-> "enter"])
    /\ part' = NoPart
    /\ pc' = "call"
    /\ UNCHANGED <<triangles, indices, centroids, pool_index>>
    /\ UNCHANGED travVars
    /\ UNCHANGED <<callerVars, gpuVars>>

\* partition has returned, but the reserved slot lies beyond the pool:
\* bvh_nodes[index] panics (index out of bounds).
SplitPanic ==
    /\ pc = "shuffle"
    /\ part.final
    /\ part.i >= part.end
    /\ Top.index >= Size(bvh_nodes)
    /\ pc' = "panic"
    /\ UNCHANGED <<triangles, indices, bvh_nodes, centroids, pool_index, frames, part>>
    /\ UNCHANGED travVars
    /\ UNCHANGED <<callerVars, gpuVars>>

\* The first recursive call has returned: subdivide calls itself on the
\* second child.
SubdivideRight ==
    /\ pc = "ret"
    /\ frames # <<>>
    /\ Top.at = "left"
    /\ frames' = Append(SetTop([Top EXCEPT !.at = "right"]),
                        [node |-> Top.index + 1, start |-> Top.pivot, index |-> 0,
                         pivot |-> 0, at |-> "enter"])
    /\ pc' = "call"
    /\ UNCHANGED <<triangles, indices, bvh_nodes, centroids, pool_index, part>>
    /\ UNCHANGED travVars
    /\ UNCHANGED <<callerVars, gpuVars>>

\* The second recursive call has returned: the node becomes internal and
\* subdivide returns.
SubdivideReturn ==
    /\ pc = "ret"
    /\ frames # <<>>
    /\ Top.at = "right"
    /\ bvh_nodes' = [bvh_nodes EXCEPT ![Top.node].count = 0]
    /\ frames' = SubSeq(frames, 1, Len(frames) - 1)
    /\ UNCHANGED <<triangles, indices, centroids, pool_index, part, pc>>
    /\ UNCHANGED travVars
    /\ UNCHANGED <<callerVars, gpuVars>>

\* subdivide(0, ...) has returned: build_bvh drops the centroids and
\* truncates the pool to new_node_index nodes (the end of build_bvh in the
\* variant of src/crates, the one that has fast_intersect).
BuildFinish ==
    /\ pc = "ret"
    /\ frames = <<>>
    /\ centroids' = <<>>
    /\ bvh_nodes' = [k \in 0..(Min2(pool_index, Size(bvh_nodes)) - 1) |-> bvh_nodes[k]]
    /\ pc' = "built"
    /\ UNCHANGED <<triangles, indices, pool_index, frames, part>>
    /\ UNCHANGED travVars
    /\ UNCHANGED <<callerVars, gpuVars>>

\* No re-ordering: the triangles stay in loading order.
LoadingOrder(tris, idx) == tris

\* A re-ordering by the inverse of the index array.
ReorderedByInverse(tris, idx) ==
    [i \in DOMAIN idx |-> tris[CHOOSE k \in DOMAIN idx : idx[k] = i]]

\* self.indices.iter().map(|index| self.triangles[*index]).collect()
Reordered(tris, idx) == [i \in DOMAIN idx |-> tris[idx[i]]]

\* The end of build_bvh in the variant of src/examples: as BuildFinish, and
\* the triangle list is replaced by the list in the order of the indices.
BuildFinishReordering ==
    /\ pc = "ret"
    /\ frames = <<>>
    /\ centroids' = <<>>
    /\ bvh_nodes' = [k \in 0..(Min2(pool_index, Size(bvh_nodes)) - 1) |-> bvh_nodes[k]]
    /\ triangles' = Reordered(triangles, indices)
    /\ pc' = "reordered"
    /\ UNCHANGED <<indices, pool_index, frames, part>>
    /\ UNCHANGED travVars
    /\ UNCHANGED <<callerVars, gpuVars>>

Build ==
    \/ BuildStart
    \/ BuildPanic
    \/ SubdivideLeaf
    \/ SubdivideSplit
    \/ ShuffleAdvance
    \/ ShuffleSwap
    \/ TrialEnd
    \/ SplitChildren
    \/ SplitPanic
    \/ SubdivideRight
    \/ SubdivideReturn
    \/ BuildFinish
    \/ BuildFinishReordering

\* ------------------------------------------------- intersection primitives
\* Distances: fractions n/d with d >= 0, f32::MAX as 1/0.
F32_MAX == [n |-> 1, d |-> 0]

Rat(k) == [n |-> k, d |-> 1]

RLess(x, y) == x.n * y.d < y.n * x.d

REq(x, y) == x.n * y.d = y.n * x.d

\* The rays: origin, direction, reciprocal direction, t = f32::MAX and
\* prim = u32::MAX, as on_render builds them.
NewRay(o, d) == [o |-> o, d |-> d, d_r |-> d, t |-> F32_MAX, prim |-> PRIM_NONE]

Rays ==
    { NewRay(<<-1, -1, -1>>, <<1, 1, 1>>),
      NewRay(<<0, 1, -1>>, <<1, 1, 1>>),
      NewRay(<<3, 5, -1>>, <<1, 1, 1>>),
      NewRay(<<20, 20, 20>>, <<1, 1, 1>>),
      NewRay(<<10, 10, 10>>, <<-1, -1, -1>>) }

\* A commit test that also takes a distance equal to ray.t.
CommitsNonStrict(dist, t) == dist.n > dist.d \div EPS_INV /\ ~RLess(t, dist)

\* dist > 0.0000001 && dist < ray.t, for dist = n/d with d > 0.
Commits(dist, t) == dist.n > dist.d \div EPS_INV /\ RLess(dist, t)

\* intersects_triangle(ray, triangle_index): the ray it leaves.  u, v and
\* dist are un/den, vn/den and dn/den with den = |det| > 0.  The early
\* return on a determinant near zero is commented out in the source, so for
\* det = 0 the code goes on with inv_det infinite: u, v and dist are then
\* infinite or NaN, and no such dist passes `dist > 0.0000001 && dist <
\* ray.t`, so the ray is left as it is.
intersects_triangle(r, triangle_index) ==
    LET a == triangles[triangle_index][1]
        b == triangles[triangle_index][2]
        c == triangles[triangle_index][3]
        a_to_b == Sub(b, a)
        a_to_c == Sub(c, a)
        u_vec == cross(r.d, a_to_c)
        det == dot(a_to_b, u_vec)
        s == IF det < 0 THEN -1 ELSE 1
        den == det * s
        a_to_origin == Sub(r.o, a)
        un == dot(a_to_origin, u_vec) * s
        v_vec == cross(a_to_origin, a_to_b)
        vn == dot(r.d, v_vec) * s
        dn == dot(a_to_c, v_vec) * s
        dist == [n |-> dn, d |-> den]
    IN IF det = 0 THEN r
       ELSE IF un < 0 \/ un > den THEN r
       ELSE IF vn < 0 \/ un + vn > den THEN r
       ELSE IF Commits(dist, r.t)
            THEN [r EXCEPT !.t = dist, !.prim = triangle_index]
            ELSE r

\* intersect_aabb(ray, bvh_node): tNear, or f32::MAX on a miss.
intersect_aabb(nodes, r, bvh_node) ==
    LET vMax == nodes[bvh_node].max
        vMin == nodes[bvh_node].min
        tMin == MulP(Sub(vMin, r.o), r.d_r)
        tMax == MulP(Sub(vMax, r.o), r.d_r)
        t1 == PointMin(tMin, tMax)
        t2 == PointMax(tMin, tMax)
        tNear == Max2(Max2(t1[1], t1[2]), t1[3])
        tFar == Min2(Min2(t2[1], t2[2]), t2[3])
    IN IF tFar >= tNear /\ RLess(Rat(tNear), r.t) /\ tFar > 0
       THEN Rat(tNear)
       ELSE F32_MAX

\* intersect(ray): intersects_triangle on the triangle ids 0 .. k-1 in order.
RECURSIVE IntersectUpTo(_, _)
IntersectUpTo(r, k) ==
    IF k = 0 THEN r ELSE intersects_triangle(IntersectUpTo(r, k - 1), k - 1)

intersect(r) == IntersectUpTo(r, N)

\* ---------------------------------------------------------- fast_intersect
Node == bvh_nodes[trav.node_index]

StackPtr == Len(trav.stack)

\* on_render: a new ray, and the entry of fast_intersect.
TravStart ==
    /\ pc = "built"
    /\ tpc = "idle"
    /\ ray' \in Rays
    /\ trav' = NoTrav
    /\ tpc' = "loop"
    /\ UNCHANGED triangles
    /\ UNCHANGED buildVars
    /\ UNCHANGED <<callerVars, gpuVars>>

\* fast_intersect called on a BVH that construct has made and build_bvh has
\* not run on: it has no check, the loop is entered on the zeroed pool.
TravStartUnbuilt ==
    /\ pc = "constructed"
    /\ tpc = "idle"
    /\ ray' \in Rays
    /\ trav' = NoTrav
    /\ tpc' = "loop"
    /\ pc' = "unbuilt"
    /\ UNCHANGED <<triangles, indices, bvh_nodes, centroids, pool_index, frames, part>>
    /\ UNCHANGED <<callerVars, gpuVars>>

\* The node is a leaf: the loop over its triangles begins.
EnterLeaf ==
    /\ tpc = "loop"
    /\ trav.node_index \in DOMAIN bvh_nodes
    /\ Node.count > 0
    /\ trav' = [trav EXCEPT !.i = 0]
    /\ tpc' = "leaf"
    /\ UNCHANGED <<triangles, ray>>
    /\ UNCHANGED buildVars
    /\ UNCHANGED <<callerVars, gpuVars>>

\* One call of intersects_triangle in a leaf.
LeafTest ==
    /\ tpc = "leaf"
    /\ trav.i < Node.count
    /\ Node.left_first + trav.i \in DOMAIN indices
    /\ ray' = intersects_triangle(ray, indices[Node.left_first + trav.i])
    /\ trav' = [trav EXCEPT !.i = trav.i + 1]
    /\ UNCHANGED <<triangles, tpc>>
    /\ UNCHANGED buildVars
    /\ UNCHANGED <<callerVars, gpuVars>>

\* The leaf is exhausted with an empty stack: break.
LeafBreak ==
    /\ tpc = "leaf"
    /\ trav.i >= Node.count
    /\ StackPtr = 0
    /\ tpc' = "done"
    /\ UNCHANGED <<triangles, ray, trav>>
    /\ UNCHANGED buildVars
    /\ UNCHANGED <<callerVars, gpuVars>>

\* The leaf is exhausted: the pop loop begins with t = f32::MAX.
LeafPop ==
    /\ tpc = "leaf"
    /\ trav.i >= Node.count
    /\ StackPtr # 0
    /\ trav' = [trav EXCEPT !.t = F32_MAX]
    /\ tpc' = "pop"
    /\ UNCHANGED <<triangles, ray>>
    /\ UNCHANGED buildVars
    /\ UNCHANGED <<callerVars, gpuVars>>

\* while t >= ray.t, with the stack empty: break 'outer.
PopBreak ==
    /\ tpc = "pop"
    /\ ~RLess(trav.t, ray.t)
    /\ StackPtr = 0
    /\ tpc' = "done"
    /\ UNCHANGED <<triangles, ray, trav>>
    /\ UNCHANGED buildVars
    /\ UNCHANGED <<callerVars, gpuVars>>

\* while t >= ray.t: the top entry is popped into (node_index, t).
PopEntry ==
    /\ tpc = "pop"
    /\ ~RLess(trav.t, ray.t)
    /\ StackPtr # 0
    /\ trav' = [trav EXCEPT !.node_index = trav.stack[StackPtr].node,
                            !.t = trav.stack[StackPtr].t,
                            !.stack = SubSeq(trav.stack, 1, StackPtr - 1)]
    /\ UNCHANGED <<triangles, ray, tpc>>
    /\ UNCHANGED buildVars
    /\ UNCHANGED <<callerVars, gpuVars>>

\* A pop loop that also ends on t = ray.t.
PopExitNonStrict ==
    /\ tpc = "pop"
    /\ ~RLess(ray.t, trav.t)
    /\ tpc' = "loop"
    /\ UNCHANGED <<triangles, ray, trav>>
    /\ UNCHANGED buildVars
    /\ UNCHANGED <<callerVars, gpuVars>>

\* t < ray.t: the pop loop ends and the outer loop goes on at node_index.
PopExit ==
    /\ tpc = "pop"
    /\ RLess(trav.t, ray.t)
    /\ tpc' = "loop"
    /\ UNCHANGED <<triangles, ray, trav>>
    /\ UNCHANGED buildVars
    /\ UNCHANGED <<callerVars, gpuVars>>

\* The children of the node and their distances, nearer one first.
Children ==
    LET c1 == Node.left_first
        c2 == Node.left_first + 1
        d1 == intersect_aabb(bvh_nodes, ray, c1)
        d2 == intersect_aabb(bvh_nodes, ray, c2)
    IN IF RLess(d2, d1)
       THEN [child1 |-> c2, dist1 |-> d2, child2 |-> c1, dist2 |-> d1]
       ELSE [child1 |-> c1, dist1 |-> d1, child2 |-> c2, dist2 |-> d2]

AtInner ==
    /\ tpc = "loop"
    /\ trav.node_index \in DOMAIN bvh_nodes
    /\ ~(Node.count > 0)
    /\ Node.left_first \in DOMAIN bvh_nodes
    /\ Node.left_first + 1 \in DOMAIN bvh_nodes

\* Both children are missed with an empty stack: break.
InnerBreak ==
    /\ AtInner
    /\ Children.dist1 = F32_MAX
    /\ StackPtr = 0
    /\ tpc' = "done"
    /\ UNCHANGED <<triangles, ray, trav>>
    /\ UNCHANGED buildVars
    /\ UNCHANGED <<callerVars, gpuVars>>

\* Both children are missed: the pop loop begins with t = f32::MAX.
InnerPop ==
    /\ AtInner
    /\ Children.dist1 = F32_MAX
    /\ StackPtr # 0
    /\ trav' = [trav EXCEPT !.t = F32_MAX]
    /\ tpc' = "pop"
    /\ UNCHANGED <<triangles, ray>>
    /\ UNCHANGED buildVars
    /\ UNCHANGED <<callerVars, gpuVars>>

\* Only the nearer child is hit: it becomes the node.
InnerDescend ==
    /\ AtInner
    /\ Children.dist1 # F32_MAX
    /\ Children.dist2 = F32_MAX
    /\ trav' = [trav EXCEPT !.node_index = Children.child1]
    /\ UNCHANGED <<triangles, ray, tpc>>
    /\ UNCHANGED buildVars
    /\ UNCHANGED <<callerVars, gpuVars>>

\* Both children are hit: the nearer becomes the node, the other is pushed.
InnerPush ==
    /\ AtInner
    /\ Children.dist1 # F32_MAX
    /\ Children.dist2 # F32_MAX
    /\ StackPtr < STACK_SIZE
    /\ trav' = [trav EXCEPT !.node_index = Children.child1,
                            !.stack = Append(trav.stack,
                                             [node |-> Children.child2,
                                              t |-> Children.dist2])]
    /\ UNCHANGED <<triangles, ray, tpc>>
    /\ UNCHANGED buildVars
    /\ UNCHANGED <<callerVars, gpuVars>>

\* An index out of bounds panics: the node, one of its children, an entry
\* of a leaf, or the push on a full stack.
TravPanic ==
    /\ \/ /\ tpc = "loop"
          /\ trav.node_index \notin DOMAIN bvh_nodes
       \/ /\ tpc = "loop"
          /\ trav.node_index \in DOMAIN bvh_nodes
          /\ ~(Node.count > 0)
          /\ \/ Node.left_first \notin DOMAIN bvh_nodes
             \/ Node.left_first + 1 \notin DOMAIN bvh_nodes
       \/ /\ tpc = "leaf"
          /\ trav.i < Node.count
          /\ Node.left_first + trav.i \notin DOMAIN indices
       \/ /\ AtInner
          /\ Children.dist1 # F32_MAX
          /\ Children.dist2 # F32_MAX
          /\ StackPtr >= STACK_SIZE
    /\ tpc' = "panic"
    /\ UNCHANGED <<triangles, ray, trav>>
    /\ UNCHANGED buildVars
    /\ UNCHANGED <<callerVars, gpuVars>>

\* One step of the loop of fast_intersect.
TravStep ==
    \/ EnterLeaf
    \/ LeafTest
    \/ LeafBreak
    \/ LeafPop
    \/ PopBreak
    \/ PopEntry
    \/ PopExit
    \/ InnerBreak
    \/ InnerPop
    \/ InnerDescend
    \/ InnerPush
    \/ TravPanic

Traverse ==
    \/ TravStart
    \/ TravStep

Next == Build \/ Traverse

Spec == Init /\ [][Next]_vars

\* ------------------------------------------- fast_intersect as a function
\* The loop of fast_intersect run to its end on one ray, for the traversals
\* that return: node by node as the steps above, without the steps of
\* anything else in between.
ChildrenOf(r, n) ==
    LET c1 == bvh_nodes[n].left_first
        c2 == bvh_nodes[n].left_first + 1
        d1 == intersect_aabb(bvh_nodes, r, c1)
        d2 == intersect_aabb(bvh_nodes, r, c2)
    IN IF RLess(d2, d1)
       THEN [child1 |-> c2, dist1 |-> d2, child2 |-> c1, dist2 |-> d1]
       ELSE [child1 |-> c1, dist1 |-> d1, child2 |-> c2, dist2 |-> d2]

\* for i in 0..count: intersects_triangle(ray, indices[left_first + i])
RECURSIVE LeafLoop(_, _, _)
LeafLoop(r, first, k) ==
    IF k = 0
    THEN r
    ELSE intersects_triangle(LeafLoop(r, first, k - 1), indices[first + k - 1])

RECURSIVE Walk(_, _, _)
RECURSIVE PopLoop(_, _, _, _)
\* while t >= ray.t: break 'outer on an empty stack, else pop.
PopLoop(r, n, st, t) ==
    IF RLess(t, r.t)
    THEN Walk(r, n, st)
    ELSE IF st = <<>>
         THEN r
         ELSE PopLoop(r, st[Len(st)].node, SubSeq(st, 1, Len(st) - 1),
                      st[Len(st)].t)

\* The outer loop at node n with the stack st.
Walk(r, n, st) ==
    IF bvh_nodes[n].count > 0
    THEN LET r2 == LeafLoop(r, bvh_nodes[n].left_first, bvh_nodes[n].count)
         IN IF st = <<>> THEN r2 ELSE PopLoop(r2, n, st, F32_MAX)
    ELSE LET c == ChildrenOf(r, n)
         IN IF c.dist1 = F32_MAX
            THEN IF st = <<>> THEN r ELSE PopLoop(r, n, st, F32_MAX)
            ELSE IF c.dist2 # F32_MAX
                 THEN Walk(r, c.child1,
                           Append(st, [node |-> c.child2, t |-> c.dist2]))
                 ELSE Walk(r, c.child1, st)

fast_intersect(r) == Walk(r, 0, <<>>)

\* ------------------------------------------------------ rays in parallel
\* A triangle list as the function on 0..n-1.
ListOf(seq) == [k \in 0..(Len(seq) - 1) |-> seq[k + 1]]

\* The triangle lists the frames of concurrent rays are traced on.
FrameScenes ==
    { ListOf(<<>>),
      ListOf(<<TriA>>),
      ListOf(<<TriB, TriB, TriB, TriB>>),
      ListOf(<<TriB, TriA, TriB, TriB>>),
      ListOf(<<TriE, TriA, TriB, TriE>>),
      ListOf(<<TriB, TriC, TriC, TriC>>),
      ListOf(<<TriA, TriA, TriC, TriB>>),
      ListOf(<<TriA, TriA, TriA, TriE, TriC>>) }

\* on_render: par_iter().map(..) hands two rays to two workers; each has
\* its own Ray, stack and node_index.  One worker runs, the locals of the
\* other wait in par.
ParStart ==
    /\ pc = "built"
    /\ tpc = "idle"
    /\ par = <<>>
    /\ \E r1, r2 \in Rays :
           /\ ray' = r1
           /\ par' = << [ray |-> r2, trav |-> NoTrav, tpc |-> "loop"] >>
    /\ trav' = NoTrav
    /\ tpc' = "loop"
    /\ UNCHANGED <<triangles, prev>>
    /\ UNCHANGED buildVars
    /\ UNCHANGED gpuVars

\* A switch that leaves the stack in place, as if the workers shared it.
SwitchSharedStack ==
    /\ par # <<>>
    /\ par[1].tpc \notin {"done", "panic"}
    /\ ray' = par[1].ray
    /\ trav' = [par[1].trav EXCEPT !.stack = trav.stack]
    /\ tpc' = par[1].tpc
    /\ par' = << [ray |-> ray, trav |-> trav, tpc |-> tpc] >>
    /\ UNCHANGED <<triangles, prev>>
    /\ UNCHANGED buildVars
    /\ UNCHANGED gpuVars

\* The scheduler: the running worker waits and the other one goes on where
\* it was, with its own locals.
Switch ==
    /\ par # <<>>
    /\ par[1].tpc \notin {"done", "panic"}
    /\ ray' = par[1].ray
    /\ trav' = par[1].trav
    /\ tpc' = par[1].tpc
    /\ par' = << [ray |-> ray, trav |-> trav, tpc |-> tpc] >>
    /\ UNCHANGED <<triangles, prev>>
    /\ UNCHANGED buildVars
    /\ UNCHANGED gpuVars

NextPar == Build \/ TravStartUnbuilt \/ ParStart \/ TravStep \/ Switch

\* on_init on one of the lists of FrameScenes.
InitPar == Constructed(FrameScenes) /\ NewGpu

\* on_init, then one frame of two concurrent rays, or a ray traced on the
\* BVH as construct left it.
SpecPar == InitPar /\ [][NextPar]_vars

\* ------------------------------------------------------ the resource pool
\* The program of resource_clean has a gpu context and no BVH.
NoBvh ==
    /\ triangles = <<>>
    /\ indices = <<>>
    /\ bvh_nodes = <<>>
    /\ centroids = <<>>
    /\ pool_index = 0
    /\ frames = <<>>
    /\ part = NoPart
    /\ pc = "none"
    /\ ray = NoRay
    /\ trav = NoTrav
    /\ tpc = "idle"
    /\ prev = NoPrev
    /\ par = <<>>

bvhVars == <<triangles, indices, bvh_nodes, centroids, pool_index, frames,
             part, pc, ray, trav, tpc, prev, par>>

\* Remove the entry at position i (counted from 0) of a Vec.
Remove(seq, i) == SubSeq(seq, 1, i) \o SubSeq(seq, i + 2, Len(seq))

\* ResourceHandle::reference_count of a handle of the pool: the pool's own
\* copy and the copies held outside it.
reference_count(held, handle) == 1 + held[handle.id]

\* ResourceHandle::decrement: lock().sub(1) computes the difference and
\* drops it; the index in the handle stays as it was (on the index 0 the
\* subtraction overflows, see DecrementOverflows).
decrement(handle) == handle

\* handles.iter_mut().for_each(|handle| handle.decrement())
DecrementAll(handles) == [k \in 1..Len(handles) |-> decrement(handles[k])]

\* A sweep that steps over the entry after each one it removes.
RECURSIVE SweepBuffersSkipping(_, _)
SweepBuffersSkipping(pool, i) ==
    IF i >= Len(pool.buffer_handles)
    THEN pool
    ELSE IF reference_count(user.b, pool.buffer_handles[i + 1]) = 1
         THEN SweepBuffersSkipping(
                  [pool EXCEPT !.buffers = Remove(pool.buffers, i),
                               !.buffer_handles =
                                   DecrementAll(Remove(pool.buffer_handles, i))],
                  i + 1)
         ELSE SweepBuffersSkipping(pool, i + 1)

\* The first loop of prepare_resources, from i on: a buffer whose handle
\* has the reference count 1 is removed with its handle, and i stays.
RECURSIVE SweepBuffers(_, _)
SweepBuffers(pool, i) ==
    IF i >= Len(pool.buffer_handles)
    THEN pool
    ELSE IF reference_count(user.b, pool.buffer_handles[i + 1]) = 1
         THEN SweepBuffers(
                  [pool EXCEPT !.buffers = Remove(pool.buffers, i),
                               !.buffer_handles =
                                   DecrementAll(Remove(pool.buffer_handles, i))],
                  i)
         ELSE SweepBuffers(pool, i + 1)

\* The second loop: the same for the textures; the handles it decrements
\* are the buffer handles.
RECURSIVE SweepTextures(_, _)
SweepTextures(pool, i) ==
    IF i >= Len(pool.texture_handles)
    THEN pool
    ELSE IF reference_count(user.t, pool.texture_handles[i + 1]) = 1
         THEN SweepTextures(
                  [pool EXCEPT !.textures = Remove(pool.textures, i),
                               !.texture_handles = Remove(pool.texture_handles, i),
                               !.buffer_handles = DecrementAll(pool.buffer_handles)],
                  i)
         ELSE SweepTextures(pool, i + 1)

\* The end of prepare_resources: every resource that is not allocated is
\* (recreate_resources drops the textures first, and they are allocated
\* again here).
Allocate(seq) == [k \in 1..Len(seq) |-> [seq[k] EXCEPT !.allocated = TRUE]]

prepare_resources(pool) ==
    LET swept == SweepTextures(SweepBuffers(pool, 0), 0)
    IN [swept EXCEPT !.textures = Allocate(swept.textures),
                     !.buffers = Allocate(swept.buffers)]

\* The subtraction of decrement overflows on a handle whose index is 0: a
\* build with overflow checks panics there, a build without them wraps and
\* drops the result.
DecrementOverflows(handles) == \E k \in 1..Len(handles) : handles[k].index = 0

\* Some decrement of the first loop of prepare_resources, from i on,
\* overflows.
RECURSIVE BufferSweepOverflows(_, _)
BufferSweepOverflows(pool, i) ==
    IF i >= Len(pool.buffer_handles)
    THEN FALSE
    ELSE IF reference_count(user.b, pool.buffer_handles[i + 1]) = 1
         THEN \/ DecrementOverflows(Remove(pool.buffer_handles, i))
              \/ BufferSweepOverflows(
                     [pool EXCEPT !.buffers = Remove(pool.buffers, i),
                                  !.buffer_handles =
                                      DecrementAll(Remove(pool.buffer_handles, i))],
                     i)
         ELSE BufferSweepOverflows(pool, i + 1)

\* Some decrement of the second loop, from i on, overflows.
RECURSIVE TextureSweepOverflows(_, _)
TextureSweepOverflows(pool, i) ==
    IF i >= Len(pool.texture_handles)
    THEN FALSE
    ELSE IF reference_count(user.t, pool.texture_handles[i + 1]) = 1
         THEN \/ DecrementOverflows(pool.buffer_handles)
              \/ TextureSweepOverflows(
                     [pool EXCEPT !.textures = Remove(pool.textures, i),
                                  !.texture_handles = Remove(pool.texture_handles, i),
                                  !.buffer_handles = DecrementAll(pool.buffer_handles)],
                     i)
         ELSE TextureSweepOverflows(pool, i + 1)

PrepareOverflows(pool) ==
    \/ BufferSweepOverflows(pool, 0)
    \/ TextureSweepOverflows(SweepBuffers(pool, 0), 0)

\* CoGr::buffer: the buffer and a handle with its index are pushed; the
\* caller gets a clone of the handle, and keeps it or drops it at once.
CreateBuffer ==
    /\ gpc = "idle"
    /\ Len(user.b) + Len(user.t) < MaxResources
    /\ LET id == Len(user.b) + 1
           handle == [id |-> id, index |-> Len(resource_pool.buffers)]
       IN /\ resource_pool' =
                 [resource_pool EXCEPT
                      !.buffers = Append(@, [id |-> id, allocated |-> FALSE]),
                      !.buffer_handles = Append(@, handle)]
          /\ \E kept \in {0, 1} : user' = [user EXCEPT !.b = Append(@, kept)]
    /\ UNCHANGED gpc
    /\ UNCHANGED <<bvhVars, dispatch>>

\* CoGr::texture: the same for a texture.
CreateTexture ==
    /\ gpc = "idle"
    /\ Len(user.b) + Len(user.t) < MaxResources
    /\ LET id == Len(user.t) + 1
           handle == [id |-> id, index |-> Len(resource_pool.textures)]
       IN /\ resource_pool' =
                 [resource_pool EXCEPT
                      !.textures = Append(@, [id |-> id, allocated |-> FALSE]),
                      !.texture_handles = Append(@, handle)]
          /\ \E kept \in {0, 1} : user' = [user EXCEPT !.t = Append(@, kept)]
    /\ UNCHANGED gpc
    /\ UNCHANGED <<bvhVars, dispatch>>

\* The program clones a handle it holds.
CloneHandle ==
    /\ gpc # "panic"
    /\ \/ \E k \in 1..Len(user.b) :
              /\ user.b[k] \in 1..(MaxHeld - 1)
              /\ user' = [user EXCEPT !.b[k] = @ + 1]
       \/ \E k \in 1..Len(user.t) :
              /\ user.t[k] \in 1..(MaxHeld - 1)
              /\ user' = [user EXCEPT !.t[k] = @ + 1]
    /\ UNCHANGED <<resource_pool, gpc>>
    /\ UNCHANGED <<bvhVars, dispatch>>

\* The program drops a handle it holds.
DropHandle ==
    /\ gpc # "panic"
    /\ \/ \E k \in 1..Len(user.b) :
              /\ user.b[k] >= 1
              /\ user' = [user EXCEPT !.b[k] = @ - 1]
       \/ \E k \in 1..Len(user.t) :
              /\ user.t[k] >= 1
              /\ user' = [user EXCEPT !.t[k] = @ - 1]
    /\ UNCHANGED <<resource_pool, gpc>>
    /\ UNCHANGED <<bvhVars, dispatch>>

\* CoGr::get_encoder: prepare_resources, then the Encoder, which borrows
\* the gpu context.
GetEncoder ==
    /\ gpc = "idle"
    /\ resource_pool' = prepare_resources(resource_pool)
    /\ gpc' = "encoding"
    /\ UNCHANGED user
    /\ UNCHANGED <<bvhVars, dispatch>>

\* CoGr::get_encoder in a build with overflow checks, when a decrement of
\* prepare_resources meets a handle with index 0: attempt to subtract with
\* overflow.
GetEncoderPanic ==
    /\ gpc = "idle"
    /\ PrepareOverflows(resource_pool)
    /\ gpc' = "panic"
    /\ UNCHANGED <<resource_pool, user>>
    /\ UNCHANGED <<bvhVars, dispatch>>

\* The Encoder is dropped: the commands are submitted.
EncoderDrop ==
    /\ gpc = "encoding"
    /\ gpc' = "idle"
    /\ UNCHANGED <<resource_pool, user>>
    /\ UNCHANGED <<bvhVars, dispatch>>

NextPool ==
    \/ CreateBuffer
    \/ CreateTexture
    \/ CloneHandle
    \/ DropHandle
    \/ GetEncoder
    \/ GetEncoderPanic
    \/ EncoderDrop

InitPool == NoBvh /\ NewGpu

\* A program that creates resources, keeps or drops their handles, and
\* asks for encoders.
SpecPool == InitPool /\ [][NextPool]_vars

\* The pool of src/crates/gpu.  After it has removed entry i its
\* prepare_resources lowers by one the index of every buffer handle whose
\* index is above i.
AdjustAbove(handles, i) ==
    [k \in 1..Len(handles) |->
        IF handles[k].index > i
        THEN [handles[k] EXCEPT !.index = @ - 1]
        ELSE handles[k]]

\* Its first loop, from i on.
RECURSIVE SweepBuffersCrates(_, _)
SweepBuffersCrates(pool, i) ==
    IF i >= Len(pool.buffer_handles)
    THEN pool
    ELSE IF reference_count(user.b, pool.buffer_handles[i + 1]) = 1
         THEN SweepBuffersCrates(
                  [pool EXCEPT !.buffers = Remove(pool.buffers, i),
                               !.buffer_handles =
                                   AdjustAbove(Remove(pool.buffer_handles, i), i)],
                  i)
         ELSE SweepBuffersCrates(pool, i + 1)

\* Its second loop, from i on: a texture and its handle are removed, and the
\* handles that are adjusted are the buffer handles.
RECURSIVE SweepTexturesCrates(_, _)
SweepTexturesCrates(pool, i) ==
    IF i >= Len(pool.texture_handles)
    THEN pool
    ELSE IF reference_count(user.t, pool.texture_handles[i + 1]) = 1
         THEN SweepTexturesCrates(
                  [pool EXCEPT !.textures = Remove(pool.textures, i),
                               !.texture_handles = Remove(pool.texture_handles, i),
                               !.buffer_handles = AdjustAbove(pool.buffer_handles, i)],
                  i)
         ELSE SweepTexturesCrates(pool, i + 1)

prepare_resources_crates(pool) ==
    LET swept == SweepTexturesCrates(SweepBuffersCrates(pool, 0), 0)
    IN [swept EXCEPT !.textures = Allocate(swept.textures),
                     !.buffers = Allocate(swept.buffers)]

\* A call of that prepare_resources.
PrepareCrates ==
    /\ gpc = "idle"
    /\ resource_pool' = prepare_resources_crates(resource_pool)
    /\ UNCHANGED <<user, gpc>>
    /\ UNCHANGED <<bvhVars, dispatch>>

NextPoolCrates ==
    \/ CreateBuffer
    \/ CreateTexture
    \/ CloneHandle
    \/ DropHandle
    \/ PrepareCrates

\* The same program on the pool of src/crates/gpu.
SpecPoolCrates == InitPool /\ [][NextPoolCrates]_vars

\* ------------------------------------------------------------ div_ceil
\* (val / div) + (val % div), in u32: the sum is at most val, it cannot
\* overflow.
div_ceil(val, div) == (val \div div) + (val % div)

\* A pass is about to be dispatched over an extent val with work groups of
\* div threads.
InitDispatch ==
    /\ NoBvh
    /\ resource_pool = EmptyPool
    /\ user = NoUser
    /\ gpc = "idle"
    /\ \E val \in 0..MaxVal, div \in 1..MaxDiv :
           dispatch = [val |-> val, div |-> div, out |-> 0, done |-> FALSE]

\* The work-group count of the pass is computed: div_ceil(val, div).
Dispatch ==
    /\ ~dispatch.done
    /\ dispatch' = [dispatch EXCEPT !.out = div_ceil(dispatch.val, dispatch.div),
                                    !.done = TRUE]
    /\ UNCHANGED <<resource_pool, user, gpc>>
    /\ UNCHANGED bvhVars

NextDispatch == Dispatch

SpecDispatch == InitDispatch /\ [][NextDispatch]_vars

\* ------------------------------------------------------- building again
\* An index array that keeps the order the earlier build left.
StaleIndices(n) == indices

\* construct: indices 0..n-1.
FreshIndices(n) == [k \in 0..(n - 1) |-> k]

\* The caller keeps the node pool and the index array of the build that has
\* returned, and constructs the BVH again from the same triangle list: a
\* fresh index array and a zeroed pool of 2N nodes.
Reconstruct ==
    /\ pc = "built"
    /\ tpc = "idle"
    /\ ~prev.built
    /\ prev' = [built |-> TRUE, bvh_nodes |-> bvh_nodes, indices |-> indices]
    /\ indices' = FreshIndices(N)
    /\ bvh_nodes' = [k \in 0..(2 * N - 1) |-> ZeroNode]
    /\ centroids' = <<>>
    /\ pool_index' = 0
    /\ frames' = <<>>
    /\ part' = NoPart
    /\ pc' = "constructed"
    /\ UNCHANGED <<triangles, par>>
    /\ UNCHANGED travVars
    /\ UNCHANGED gpuVars

NextRebuild == Build \/ Reconstruct

\* Two builds of the same triangle list, one after the other.
SpecRebuild == Init /\ [][NextRebuild]_vars

\* A second call that leaves the root as the first call left it.
BuildAgainKeepingRoot ==
    /\ pc = "built"
    /\ tpc = "idle"
    /\ ~prev.built
    /\ prev' = [built |-> TRUE, bvh_nodes |-> bvh_nodes, indices |-> indices]
    /\ centroids' = [k \in 0..(N - 1) |->
                        Add(Add(triangles[k][1], triangles[k][2]), triangles[k][3])]
    /\ bvh_nodes' = set_bound(bvh_nodes, 0, calculate_bounds(indices, <<>>, 0, N, FALSE))
    /\ pool_index' = 2
    /\ frames' = << [node |-> 0, start |-> 0, index |-> 0, pivot |-> 0,
                     at |-> "enter"] >>
    /\ part' = NoPart
    /\ pc' = "call"
    /\ UNCHANGED <<triangles, indices, par>>
    /\ UNCHANGED travVars
    /\ UNCHANGED gpuVars

\* build_bvh called again on the structure a build has returned on, up to
\* the call of subdivide: the index array and the truncated pool are as the
\* first call left them; the centroids are collected again, the root gets
\* count = N and the bounds of indices[0..N), new_node_index starts at 2.
\* The caller keeps a copy of the first call's pool and index array.
BuildAgain ==
    /\ pc = "built"
    /\ tpc = "idle"
    /\ ~prev.built
    /\ prev' = [built |-> TRUE, bvh_nodes |-> bvh_nodes, indices |-> indices]
    /\ centroids' = [k \in 0..(N - 1) |->
                        Add(Add(triangles[k][1], triangles[k][2]), triangles[k][3])]
    /\ bvh_nodes' = set_bound(
                       [bvh_nodes EXCEPT ![0].left_first = 0, ![0].count = N],
                       0, calculate_bounds(indices, <<>>, 0, N, FALSE))
    /\ pool_index' = 2
    /\ frames' = << [node |-> 0, start |-> 0, index |-> 0, pivot |-> 0,
                     at |-> "enter"] >>
    /\ part' = NoPart
    /\ pc' = "call"
    /\ UNCHANGED <<triangles, indices, par>>
    /\ UNCHANGED travVars
    /\ UNCHANGED gpuVars

NextAgain == Build \/ BuildAgain

\* Two calls of build_bvh on one structure, with nothing reset in between.
SpecAgain == Init /\ [][NextAgain]_vars

\* ------------------------------------------------------------ the tree
\* The nodes the traversal can be led to from the root: a node with
\* count = 0 is read as internal, with the children left_first and
\* left_first + 1.
RECURSIVE ReachFrom(_)
ReachFrom(S) ==
    LET nxt == S \cup {c \in DOMAIN bvh_nodes : \E k \in S :
                          /\ bvh_nodes[k].count = 0
                          /\ c \in {bvh_nodes[k].left_first,
                                    bvh_nodes[k].left_first + 1}}
    IN IF nxt = S THEN S ELSE ReachFrom(nxt)

Reachable == ReachFrom({0})

BoxIn(inner, outer) ==
    \A a \in Axes : outer.min[a] <= inner.min[a] /\ inner.max[a] <= outer.max[a]

PointIn(p, box) == \A a \in Axes : box.min[a] <= p[a] /\ p[a] <= box.max[a]

IdsIn(idx, first, amount) == {idx[k] : k \in first..(first + amount - 1)}

Identity == [k \in 0..(N - 1) |-> k]

\* The ray as fast_intersect received it.
FreshRay == [ray EXCEPT !.t = F32_MAX, !.prim = PRIM_NONE]

\* ------------------------------------------------------------- the claims

\* C1: when fast_intersect has returned, the ray has the t and the prim
\* that the brute-force intersect gives the same fresh ray.
FastEqualsBrute ==
    (pc = "built" /\ tpc = "done") =>
        /\ REq(ray.t, intersect(FreshRay).t)
        /\ ray.prim = intersect(FreshRay).prim

\* C2: in every state of the build and after it, the index array holds
\* every triangle id 0..N-1 exactly once.
IndicesArePermutation ==
    /\ DOMAIN indices = 0..(N - 1)
    /\ IdsIn(indices, 0, N) = 0..(N - 1)

\* C2 witness: inside a trial of partition_shuffle, after a swap.
SwappedInsideTrial ==
    /\ pc = "shuffle"
    /\ part.end < part.start + part.count - 1
    /\ indices # Identity

\* The step in which subdivide writes the two children of a node.
SplitStep == pc = "shuffle" /\ pc' = "call"

\* C3: when subdivide has split a node, the counts of the two children sum
\* to the count of the node, the ranges [start, pivot) and
\* [pivot, start+count) tile the range of the node, they hold disjoint sets
\* of ids, and no step of the partition moves an id into or out of the
\* range of the node.
SplitTilesRange ==
    [][ /\ SplitStep =>
            LET f == frames'[Len(frames') - 1]
                cnt == bvh_nodes[f.node].count
                l == bvh_nodes'[f.index].count
                r == bvh_nodes'[f.index + 1].count
            IN /\ l + r = cnt
               /\ l >= 0
               /\ r >= 0
               /\ f.pivot = f.start + l
               /\ f.pivot + r = f.start + cnt
               /\ IdsIn(indices', f.start, l) \cap IdsIn(indices', f.pivot, r) = {}
               /\ IdsIn(indices', f.start, l) \cup IdsIn(indices', f.pivot, r)
                      = IdsIn(indices, Top.start, cnt)
               /\ frames'[Len(frames')].node = f.index
               /\ frames'[Len(frames')].start = f.start
        /\ pc = "shuffle" =>
            /\ IdsIn(indices', part.start, part.count)
                   = IdsIn(indices, part.start, part.count)
            /\ \A k \in DOMAIN indices :
                   k \notin part.start..(part.start + part.count - 1)
                       => indices'[k] = indices[k]
      ]_vars

\* C3 witness: a node has just been split into two non-empty children.
SplitIntoTwo ==
    /\ pc = "call"
    /\ Len(frames) >= 2
    /\ Top.at = "enter"
    /\ frames[Len(frames) - 1].at = "left"
    /\ bvh_nodes[Top.node].count > 0
    /\ bvh_nodes[Top.node + 1].count > 0

\* C4: after the build, the box of every internal node contains the boxes
\* of its two children, and the box of every leaf contains the vertices of
\* the triangles of its range.
NodeContains(k) ==
    LET n == bvh_nodes[k]
    IN IF n.count > 0
       THEN \A i \in n.left_first..(n.left_first + n.count - 1) :
                /\ i \in DOMAIN indices
                /\ \A j \in 1..3 : PointIn(triangles[indices[i]][j], n)
       ELSE \A c \in {n.left_first, n.left_first + 1} :
                /\ c \in DOMAIN bvh_nodes
                /\ BoxIn(bvh_nodes[c], n)

BoxesContain == pc = "built" => \A k \in Reachable : NodeContains(k)

\* C5: build_bvh terminates for every triangle list that has a triangle: a
\* build that has begun and can take no further step has returned from
\* subdivide(0, ..) and from build_bvh.
BuildReturns ==
    (N >= 1 /\ pc \notin {"constructed", "unbuilt"} /\ ~ENABLED Build)
        => pc \in {"built", "reordered"}

\* C6: every slot subdivide reserves lies inside the pool of 2N nodes, and
\* the truncated pool has at most 2N nodes.
SlotsInsidePool ==
    /\ pool_index <= 2 * N
    /\ pc = "built" => Size(bvh_nodes) <= 2 * N

\* C7: after the build, every leaf that can be reached from the root has at
\* most three triangles.
LeavesAreSmall ==
    pc = "built" => \A k \in Reachable : bvh_nodes[k].count <= 3

\* C7 witness: a built tree with a leaf of three triangles below the root.
BuiltWithFullLeaf ==
    /\ pc = "built"
    /\ \E k \in Reachable : k >= 2 /\ bvh_nodes[k].count = 3

\* C8: after the build, every node that can be reached from the root is a
\* leaf (count > 0) with its range inside the index array, or an internal
\* node (count = 0) whose children left_first >= 2 and left_first + 1 are
\* inside the truncated pool.
NodeShape(k) ==
    LET n == bvh_nodes[k]
    IN \/ /\ n.count > 0
          /\ n.left_first >= 0
          /\ n.left_first + n.count <= N
       \/ /\ n.count = 0
          /\ n.left_first >= 2
          /\ n.left_first + 1 \in DOMAIN bvh_nodes

NodesAreLeafOrInternal == pc = "built" => \A k \in Reachable : NodeShape(k)

\* C9: fast_intersect on a pool that build_bvh has made terminates: a
\* traversal that can take no further step has left the loop by a break,
\* with the stack empty.
TraversalEnds ==
    (pc = "built" /\ tpc # "idle" /\ ~ENABLED TravStep)
        => (tpc = "done" /\ StackPtr = 0)

\* C10: in the steps of a traversal ray.t never increases, and ray.prim
\* changes only in a step in which ray.t becomes strictly smaller, and
\* greater than the epsilon.
RayOnlyImproves ==
    [][ tpc # "idle" =>
            /\ ~RLess(ray.t, ray'.t)
            /\ ray'.prim # ray.prim =>
                   /\ RLess(ray'.t, ray.t)
                   /\ ray'.t.d > 0
                   /\ ray'.t.n > ray'.t.d \div EPS_INV
      ]_vars

\* C10 witness: a leaf test has run after a hit was committed.
TestedAfterHit ==
    /\ tpc = "leaf"
    /\ trav.i > 0
    /\ ray.prim # PRIM_NONE
    /\ ray.prim # indices[Node.left_first + trav.i - 1]

\* C11: on a scene of zero triangles, build_bvh and then fast_intersect
\* complete without a panic, and the ray reports no hit.
EmptySceneNoHit ==
    (N = 0 /\ pc # "unbuilt") =>
        /\ pc # "panic"
        /\ tpc # "panic"
        /\ tpc = "done" => (ray.t = F32_MAX /\ ray.prim = PRIM_NONE)

\* C12: fast_intersect on a BVH that build_bvh has not run on is rejected
\* before the traversal begins: the loop is never entered, the ray keeps
\* its t and prim.
UnbuiltIsRejected ==
    pc = "unbuilt" =>
        /\ tpc \notin {"loop", "leaf", "pop", "panic"}
        /\ ray.t = F32_MAX
        /\ ray.prim = PRIM_NONE

\* C15: a list of one, two or three triangles is never partitioned and
\* reserves no slot; after the build the root is the only node that can be
\* reached, a leaf with count = N and left_first = 0, and the index array
\* is still 0..N-1.
SmallSceneIsOneLeaf ==
    N \in 1..LEAF_THRESHOLD =>
        /\ pc # "shuffle"
        /\ pool_index <= 2
        /\ indices = Identity
        /\ pc = "built" =>
               /\ Reachable = {0}
               /\ bvh_nodes[0].count = N
               /\ bvh_nodes[0].left_first = 0

\* C15 witness: the build of a list of three triangles has returned.
BuiltThreeTriangles == pc = "built" /\ N = LEAF_THRESHOLD

\* C18: when partition_shuffle returns the pivot, every entry of
\* indices[start..pivot) has its centroid below pos on the axis, and every
\* entry of indices[pivot..start+count) has it at or above pos, the entry
\* where the two pointers met included.
ShuffleSplitsAtPivot ==
    (pc = "shuffle" /\ part.i >= part.end) =>
        /\ \A k \in part.start..(part.i - 1) :
               LeftOf(indices, centroids, k, part.axis, part.pos)
        /\ \A k \in part.i..(part.start + part.count - 1) :
               ~LeftOf(indices, centroids, k, part.axis, part.pos)

\* The trial that set optimal_cost: the first one with that cost.
WinningTrial ==
    part.trials[CHOOSE k \in 1..Len(part.trials) :
                    /\ part.trials[k].cost = part.optimal_cost
                    /\ \A j \in 1..(k - 1) : part.trials[j].cost # part.optimal_cost]

\* C19: when the final partition_shuffle of partition has returned, its
\* pivot is the pivot of the winning trial, which partition returns, and
\* the ids left and right of it are the ids that were left and right of it
\* when the cost of the winning trial was computed.
FinalShuffleReproduces ==
    (pc = "shuffle" /\ part.final /\ part.i >= part.end) =>
        /\ part.i = WinningTrial.pivot
        /\ part.optimal_pivot = WinningTrial.pivot
        /\ IdsIn(indices, part.start, part.optimal_pivot - part.start)
               = WinningTrial.left
        /\ IdsIn(indices, part.optimal_pivot,
                 part.start + part.count - part.optimal_pivot)
               = IdsIn(indices, part.start, part.count) \ WinningTrial.left

\* The place of candidate (axis, b) in the scan of partition.
ScanOrder(axis, b) == axis * (BINS - 1) + b

\* C20: when partition has tried its candidates, they are the 21 candidates
\* (axis 0..2, b 1..7) in scan order, and the (axis, pos, pivot, cost) it
\* has chosen are those of the first candidate whose cost is minimal: a
\* later candidate of equal cost has not replaced it.
FirstMinimalWins ==
    (pc = "shuffle" /\ part.final) =>
        /\ Len(part.trials) = 3 * (BINS - 1)
        /\ \A k \in 1..Len(part.trials) :
               /\ ScanOrder(part.trials[k].axis, part.trials[k].b) = k
               /\ part.trials[k].b \in 1..(BINS - 1)
        /\ \E w \in 1..Len(part.trials) :
               /\ \A j \in 1..Len(part.trials) :
                      part.trials[w].cost <= part.trials[j].cost
               /\ \A j \in 1..(w - 1) : part.trials[j].cost > part.trials[w].cost
               /\ part.optimal_cost = part.trials[w].cost
               /\ part.optimal_axis = part.trials[w].axis
               /\ part.optimal_pos = part.trials[w].pos
               /\ part.optimal_pivot = part.trials[w].pivot

\* C20 witness: partition has chosen a candidate, and a later candidate
\* with another pivot had the same cost.
LaterCandidateTied ==
    /\ pc = "shuffle"
    /\ part.final
    /\ \E w, j \in 1..Len(part.trials) :
           /\ w < j
           /\ part.trials[w].pivot = part.optimal_pivot
           /\ part.trials[w].cost = part.optimal_cost
           /\ part.trials[j].cost = part.optimal_cost
           /\ part.trials[j].pivot # part.optimal_pivot

\* C14 as stated: no step of build_bvh changes the triangle list.
TrianglesNeverMutated == [][triangles' = triangles]_vars

\* C14: no step of build_bvh changes the triangle list, but the last one of
\* the variant of src/examples: it replaces the list by the same triangles
\* in the order of the final index array (position i holds the triangle
\* that had id indices[i]), and leaves the index array as it is.
TrianglesKeptOrPermuted ==
    [][ IF pc = "ret" /\ pc' = "reordered"
        THEN /\ DOMAIN triangles' = DOMAIN triangles
             /\ \A i \in DOMAIN triangles : triangles'[i] = triangles[indices[i]]
             /\ indices' = indices
        ELSE triangles' = triangles
      ]_vars

\* C14 witness: the re-ordering variant has built a tree whose index array
\* is not the identity, over triangles that are not all the same.
BuiltAndReordered ==
    /\ pc = "reordered"
    /\ indices # Identity
    /\ \E i, j \in DOMAIN triangles : triangles[i] # triangles[j]

Fresh(r) == [r EXCEPT !.t = F32_MAX, !.prim = PRIM_NONE]

\* C13: of two rays traversed concurrently over one built BVH, each one
\* that has returned has the t and the prim that fast_intersect gives it
\* when it runs alone, whatever the interleaving of the steps; and no step
\* of the frame changes the node pool, the index array or the triangles.
ConcurrentEqualsAlone ==
    [][ (pc = "built" /\ par' # <<>>) =>
            /\ UNCHANGED <<triangles, indices, bvh_nodes>>
            /\ tpc' = "done" => ray' = fast_intersect(Fresh(ray'))
            /\ par'[1].tpc = "done"
                   => par'[1].ray = fast_intersect(Fresh(par'[1].ray))
      ]_vars

\* C13 witness: both rays of a frame have returned, with different hits.
BothReturned ==
    /\ pc = "built"
    /\ par # <<>>
    /\ tpc = "done"
    /\ par[1].tpc = "done"
    /\ ray.prim # PRIM_NONE
    /\ par[1].ray.prim # PRIM_NONE
    /\ ray.prim # par[1].ray.prim

\* The ids of the resources (or of the handles) of a Vec, in its order.
IdsOf(seq) == [k \in 1..Len(seq) |-> seq[k].id]

\* The entries of a Vec whose resource has a handle outside the pool.
HeldOf(seq, held) ==
    LET IsHeld(e) == held[e.id] > 0
    IN SelectSeq(seq, IsHeld)

\* C17: after the step of get_encoder the pool holds exactly the buffers
\* that had a handle outside the pool when it was called, in the order they
\* had, each with its handle at the same place of buffer_handles.
PoolKeepsHeldBuffers ==
    [][ (gpc = "idle" /\ gpc' = "encoding") =>
            /\ IdsOf(resource_pool'.buffers)
                   = IdsOf(HeldOf(resource_pool.buffers, user.b))
            /\ IdsOf(resource_pool'.buffer_handles)
                   = IdsOf(resource_pool'.buffers)
      ]_vars

\* C17 witness: an encoder is alive, and of three buffers the first and the
\* last have been removed and the second is still in the pool.
MiddleBufferSurvived ==
    /\ gpc = "encoding"
    /\ Len(user.b) = 3
    /\ IdsOf(resource_pool.buffers) = <<2>>
    /\ user.b[2] > 0

\* The centroids of the range indices[start..start+count).
CentroidsOf(start, count) == {centroids[indices[k]] : k \in start..(start + count - 1)}

\* partition is about to return optimal_pivot.
PartitionReturns == pc = "shuffle" /\ part.final /\ part.i >= part.end

\* C21: when partition returns for a range of more than 3 triangles whose
\* centroids are not all the same point, its pivot lies strictly inside the
\* range: start < pivot < start + count, both children get a triangle.
PivotStrictlyInside ==
    (/\ PartitionReturns
     /\ part.count > LEAF_THRESHOLD
     /\ Cardinality(CentroidsOf(part.start, part.count)) > 1)
        => /\ part.start < part.optimal_pivot
           /\ part.optimal_pivot < part.start + part.count

\* min <= max on every axis.
WellFormed(bb) == \A a \in Axes : bb.min[a] <= bb.max[a]

\* The amounts partition passes to calculate_bounds for the candidate whose
\* partition_shuffle has just returned pivot.
CandidateAmounts(pivot) == <<pivot - part.start, part.count - (pivot - part.start)>>

\* C22: during build_bvh on a non-empty list calculate_bounds is never called
\* with amount 0, neither for the two boxes of a candidate in partition nor
\* for the two children in subdivide, and the boxes it returns there have
\* min <= max on every axis.
BoundsNeverOfNothing ==
    /\ (N >= 1 /\ pc = "shuffle" /\ ~part.final /\ part.i >= part.end) =>
           /\ CandidateAmounts(part.i)[1] > 0
           /\ CandidateAmounts(part.i)[2] > 0
           /\ WellFormed(calculate_bounds(indices, <<>>, part.start,
                                          CandidateAmounts(part.i)[1], FALSE))
           /\ WellFormed(calculate_bounds(indices, <<>>, part.i,
                                          CandidateAmounts(part.i)[2], FALSE))
    /\ (N >= 1 /\ PartitionReturns) =>
           /\ CandidateAmounts(part.optimal_pivot)[1] > 0
           /\ CandidateAmounts(part.optimal_pivot)[2] > 0

\* The entry distance of the ray into child k (0 or 1) of the current node.
ChildDist(k) == intersect_aabb(bvh_nodes, ray, Node.left_first + k)

\* C23: a step of fast_intersect at an internal node.  Both children hit:
\* the child with the smaller entry distance is the next node (the first
\* child when the distances are equal) and the other one is pushed with its
\* own distance.  One child hit: it is the next node, nothing is pushed.
\* None hit: nothing is pushed, and the stack is popped (the traversal ends
\* when it is empty).
NearerChildFirst ==
    [][ AtInner =>
          LET c1 == Node.left_first
              c2 == Node.left_first + 1
              d1 == ChildDist(0)
              d2 == ChildDist(1)
          IN /\ (d1 # F32_MAX /\ d2 # F32_MAX) =>
                    /\ tpc' = "loop"
                    /\ trav'.node_index = IF RLess(d2, d1) THEN c2 ELSE c1
                    /\ trav'.stack =
                          Append(trav.stack,
                                 IF RLess(d2, d1) THEN [node |-> c1, t |-> d1]
                                                  ELSE [node |-> c2, t |-> d2])
             /\ (d1 # F32_MAX /\ d2 = F32_MAX) =>
                    (tpc' = "loop" /\ trav'.node_index = c1 /\ trav'.stack = trav.stack)
             /\ (d1 = F32_MAX /\ d2 # F32_MAX) =>
                    (tpc' = "loop" /\ trav'.node_index = c2 /\ trav'.stack = trav.stack)
             /\ (d1 = F32_MAX /\ d2 = F32_MAX) =>
                    /\ trav'.stack = trav.stack
                    /\ trav'.node_index = trav.node_index
                    /\ tpc' = IF StackPtr = 0 THEN "done" ELSE "pop"
      ]_vars

\* C24: the pop loop of fast_intersect.  It begins with t = f32::MAX on a
\* non-empty stack; each pop takes the top entry into (node_index, t) and
\* happens only while t >= ray.t, so an entry whose stored distance is
\* >= ray.t is discarded unvisited; the popped node becomes the current
\* node only if its stored distance is < ray.t; the traversal ends when the
\* stack is empty before that.
PopDiscardsFarEntries ==
    [][ /\ (tpc # "pop" /\ tpc' = "pop") =>
               (StackPtr > 0 /\ trav'.t = F32_MAX /\ trav'.stack = trav.stack)
        /\ (tpc = "pop" /\ trav'.stack # trav.stack) =>
               /\ ~RLess(trav.t, ray.t)
               /\ StackPtr > 0
               /\ trav'.stack = SubSeq(trav.stack, 1, StackPtr - 1)
               /\ trav'.node_index = trav.stack[StackPtr].node
               /\ trav'.t = trav.stack[StackPtr].t
               /\ tpc' = "pop"
        /\ (tpc = "pop" /\ tpc' = "loop") =>
               (RLess(trav.t, ray.t) /\ trav' = trav /\ ray' = ray)
        /\ (tpc = "pop" /\ tpc' = "done") =>
               (~RLess(trav.t, ray.t) /\ StackPtr = 0)
        /\ (tpc = "pop" /\ ~RLess(trav.t, ray.t)) => tpc' # "loop"
      ]_vars

\* C24 witness: an entry has been popped whose stored distance is not below
\* ray.t; it is being discarded.
DiscardedEntry ==
    /\ pc = "built"
    /\ tpc = "pop"
    /\ trav.t # F32_MAX
    /\ ~RLess(trav.t, ray.t)

\* The depth of node k: the length of the shortest path from the root along
\* the children as fast_intersect reads them (S is the set of the nodes at
\* depth <= d).
RECURSIVE DepthFrom(_, _, _)
DepthFrom(S, d, k) ==
    IF k \in S \/ ReachFrom(S) = S THEN d
    ELSE DepthFrom(S \cup {c \in DOMAIN bvh_nodes : \E j \in S :
                              /\ bvh_nodes[j].count = 0
                              /\ c \in {bvh_nodes[j].left_first,
                                        bvh_nodes[j].left_first + 1}},
                   d + 1, k)

DepthOf(k) == DepthFrom({0}, 0, k)

\* C25: during fast_intersect on a built pool the stack never holds more
\* entries than the depth of the node being visited, and no push goes beyond
\* the STACK_SIZE entries of the stack.
StackWithinDepth ==
    pc = "built" =>
        /\ (tpc \in {"loop", "leaf"} /\ trav.node_index \in DOMAIN bvh_nodes) =>
               StackPtr <= DepthOf(trav.node_index)
        /\ ~(/\ AtInner
             /\ ChildDist(0) # F32_MAX
             /\ ChildDist(1) # F32_MAX
             /\ StackPtr >= STACK_SIZE)

\* The internal nodes of the pool that have slot s as a child: the nodes
\* other than the unused slot 1 with count = 0 and s = left_first or
\* s = left_first + 1.
ParentsOf(s) ==
    {k \in DOMAIN bvh_nodes \ {1} :
        /\ bvh_nodes[k].count = 0
        /\ s \in {bvh_nodes[k].left_first, bvh_nodes[k].left_first + 1}}

\* C26: after build_bvh the pool is a binary tree in child pairs: slot 0 is
\* the root (no node has it as a child), slot 1 is no node's child and is
\* still zeroed, and every slot from 2 on is the child of exactly one
\* internal node.
PoolIsTreeOfPairs ==
    (pc = "built" /\ N >= 1) =>
        /\ ParentsOf(0) = {}
        /\ ParentsOf(1) = {}
        /\ bvh_nodes[1] = ZeroNode
        /\ \A s \in 2..(Size(bvh_nodes) - 1) : Cardinality(ParentsOf(s)) = 1

\* C27: build_bvh is not idempotent on one structure.  A second call with
\* nothing reset starts from the index array the first call left: when it
\* returns with a node pool other than the first call's, that index array
\* was not 0..N-1 (the second call read the triangles in another order).
\* The witness is such a second call.
RebuildDiffersOnlyIfPermuted ==
    (pc = "built" /\ prev.built /\ bvh_nodes # prev.bvh_nodes) =>
        prev.indices # Identity

\* C27 witness: the second call has returned, and its node pool is not the
\* pool of the first call.
RebuiltDifferently ==
    /\ pc = "built"
    /\ prev.built
    /\ bvh_nodes # prev.bvh_nodes

\* The bounding box of the triangles at positions [first, first + amount) of
\* a triangle array, read without the index array.
BoxOfPositions(tris, first, amount) ==
    LET P == {tris[k][j] : k \in first..(first + amount - 1), j \in 1..3}
    IN [max |-> [a \in Axes |-> SetMax({p[a] : p \in P})],
        min |-> [a \in Axes |-> SetMin({p[a] : p \in P})]]

\* C28: the last statement of build_bvh in the re-ordering variant puts the
\* loaded triangle with id indices[i] at position i, so that every leaf's
\* box is the bounding box of the triangles at the positions
\* [left_first, left_first + count) of the new triangle array.
LeavesReadWithoutIndices ==
    [][ (pc = "ret" /\ pc' = "reordered") =>
          /\ \A i \in DOMAIN triangles' : triangles'[i] = triangles[indices'[i]]
          /\ \A k \in DOMAIN bvh_nodes' :
                 bvh_nodes'[k].count > 0 =>
                    LET n == bvh_nodes'[k]
                        bb == BoxOfPositions(triangles', n.left_first, n.count)
                    IN /\ n.left_first + n.count <= Size(triangles')
                       /\ n.min = bb.min
                       /\ n.max = bb.max
      ]_vars

\* C28 witness: the re-ordering variant has returned with an index array
\* that is not the identity and a leaf below the root whose triangles had
\* other positions when they were loaded.
ReorderedLeaf ==
    /\ pc = "reordered"
    /\ \E k \in DOMAIN bvh_nodes :
           /\ k >= 2
           /\ bvh_nodes[k].count > 0
           /\ \E i \in bvh_nodes[k].left_first..(bvh_nodes[k].left_first
                                                  + bvh_nodes[k].count - 1) :
                  indices[i] # i
    /\ \E i, j \in DOMAIN triangles : triangles[i] # triangles[j]

\* The handle at position k of a Vec of handles resolves: its index lies
\* inside the Vec of resources and the resource there is the one the handle
\* was created for.
Resolves(handles, resources, k) ==
    /\ handles[k].index < Len(resources)
    /\ resources[handles[k].index + 1].id = handles[k].id

\* C29: after any sequence of creations, drops and prepare_resources calls,
\* every handle the program still holds resolves to its own resource:
\* get_index is inside the pool's Vec and grab_buffer / grab_texture return
\* the buffer or texture the handle was created for.
HeldHandlesResolve ==
    gpc # "panic" =>
        /\ \A k \in 1..Len(resource_pool.buffer_handles) :
               user.b[resource_pool.buffer_handles[k].id] > 0 =>
                   Resolves(resource_pool.buffer_handles, resource_pool.buffers, k)
        /\ \A k \in 1..Len(resource_pool.texture_handles) :
               user.t[resource_pool.texture_handles[k].id] > 0 =>
                   Resolves(resource_pool.texture_handles, resource_pool.textures, k)

\* C30: div_ceil(val, div) is the ceiling of val / div, the smallest k with
\* k * div >= val, for every val >= 0 and div >= 1.
DivCeilIsCeiling ==
    dispatch.done =>
        /\ dispatch.out * dispatch.div >= dispatch.val
        /\ \A k \in 0..(dispatch.out - 1) : k * dispatch.div < dispatch.val

====
